---- MODULE Spec2Model ----
(***************************************************************************)
(* The bigip_ltm_profile_http resource handler                              *)
(* (bigip/resource_bigip_ltm_profile_http.go): the schema, the four         *)
(* lifecycle handlers Create / Read / Update / Delete, and the translation  *)
(* getHttpProfileConfig between the resource data d and the remote          *)
(* bigip.HttpProfile struct.                                                *)
(*                                                                          *)
(* d is the handler's *schema.ResourceData: its id and one value per schema *)
(* key (d.Get yields the zero value of the key's type for an attribute that *)
(* is not set; d.GetOk is true exactly for a non-zero value).  remote is    *)
(* the BIG-IP: the profile it holds, or none.  cfg is what the user         *)
(* declared: the optional attributes written in the configuration, with     *)
(* their values.  last records the handler call that ran last: what it      *)
(* returned, the remote calls it issued and how its fetch and its usage     *)
(* report ended.                                                            *)
(***************************************************************************)
EXTENDS Integers, Sequences, FiniteSets, TLC

VARIABLES cfg, d, remote, last

vars == <<cfg, d, remote, last>>

----------------------------------------------------------------------------
(* Bounds of the model.                                                     *)

\* How many optional attributes differ, in a behaviour, from "not declared,
\* zero on the device": declared in the configuration or changed on the device.
MaxTouched == 1

----------------------------------------------------------------------------
(* The schema (lines 30-267).                                               *)

\* TypeString attributes that Read copies back only under d.GetOk.
CondStrKeys ==
    { "accept_xff", "basic_auth_realm", "description", "encrypt_cookie_secret",
      "fallback_host", "head_erase", "head_insert", "insert_xforwarded_for",
      "lws_separator", "oneconnect_transformations", "tm_partition",
      "redirect_rewrite", "request_chunking", "response_chunking",
      "server_agent_name", "via_host_name", "via_request", "via_response" }

\* TypeSet-of-string attributes that Read copies back only under d.GetOk.
CondSetKeys == { "encrypt_cookies", "fallback_status_codes" }

\* Attributes Read sets with no d.GetOk guard (lines 328, 329, 379, 393).
AlwaysKeys ==
    { "defaults_from", "proxy_type", "response_headers_permitted",
      "xff_alternative_names" }

\* Attributes getHttpProfileConfig sends and Read never sets.
NeverKeys == { "app_service", "lws_width" }

\* The two nested blocks, each a TypeSet of one resource.
BlockKeys == { "enforcement", "http_strict_transport_security" }

SetKeys == CondSetKeys \cup { "response_headers_permitted", "xff_alternative_names" }

IntKeys == { "lws_width" }

CondKeys == CondStrKeys \cup CondSetKeys

ZeroSetKeys == SetKeys \cup BlockKeys

OptKeys == CondKeys \cup AlwaysKeys \cup NeverKeys \cup BlockKeys

AllKeys == { "name" } \cup OptKeys

\* Optional attributes without Computed: true; the plan of an undeclared one
\* is its default (the zero value), not the prior state.
NotComputedKeys == { "app_service", "encrypt_cookies", "encrypt_cookie_secret",
                     "fallback_host", "fallback_status_codes", "tm_partition" }

\* The zero value of a key's type (schema.Type.Zero()).
Zero(k) ==
    IF k \in IntKeys THEN 0
    ELSE IF k \in ZeroSetKeys THEN {}
    ELSE ""

\* The bigip.HttpProfile field each schema key is written to (lines 464-494)
\* and read from (lines 328-393).
Attr ==
    [ name |-> "Name",
      app_service |-> "AppService",
      defaults_from |-> "DefaultsFrom",
      accept_xff |-> "AcceptXff",
      basic_auth_realm |-> "BasicAuthRealm",
      description |-> "Description",
      encrypt_cookie_secret |-> "EncryptCookieSecret",
      encrypt_cookies |-> "EncryptCookies",
      fallback_host |-> "FallbackHost",
      fallback_status_codes |-> "FallbackStatusCodes",
      head_erase |-> "HeaderErase",
      head_insert |-> "HeaderInsert",
      insert_xforwarded_for |-> "InsertXforwardedFor",
      lws_separator |-> "LwsSeparator",
      oneconnect_transformations |-> "OneconnectTransformations",
      tm_partition |-> "TmPartition",
      proxy_type |-> "ProxyType",
      redirect_rewrite |-> "RedirectRewrite",
      request_chunking |-> "RequestChunking",
      response_chunking |-> "ResponseChunking",
      response_headers_permitted |-> "ResponseHeadersPermitted",
      server_agent_name |-> "ServerAgentName",
      via_host_name |-> "ViaHostName",
      via_request |-> "ViaRequest",
      via_response |-> "ViaResponse",
      xff_alternative_names |-> "XffAlternativeNames",
      lws_width |-> "LwsWidth",
      http_strict_transport_security |-> "Hsts",
      enforcement |-> "Enforcement" ]

\* The zero values of the two nested structs of bigip.HttpProfile.
ZeroHsts ==
    [ IncludeSubdomains |-> "", MaximumAge |-> 0, Mode |-> "", Preload |-> "" ]

ZeroEnforcement ==
    [ KnownMethods |-> <<>>, MaxHeaderCount |-> 0, MaxHeaderSize |-> 0,
      UnknownMethod |-> "" ]

\* &bigip.HttpProfile{}: every field at its zero value (lines 277, 434).
ZeroProfile ==
    [ Name |-> "", AppService |-> "", DefaultsFrom |-> "", AcceptXff |-> "",
      BasicAuthRealm |-> "", Description |-> "", EncryptCookieSecret |-> "",
      EncryptCookies |-> <<>>, FallbackHost |-> "", FallbackStatusCodes |-> <<>>,
      HeaderErase |-> "", HeaderInsert |-> "", InsertXforwardedFor |-> "",
      LwsSeparator |-> "", OneconnectTransformations |-> "", TmPartition |-> "",
      ProxyType |-> "", RedirectRewrite |-> "", RequestChunking |-> "",
      ResponseChunking |-> "", ResponseHeadersPermitted |-> <<>>,
      ServerAgentName |-> "", ViaHostName |-> "", ViaRequest |-> "",
      ViaResponse |-> "", XffAlternativeNames |-> <<>>, LwsWidth |-> 0,
      Hsts |-> ZeroHsts, Enforcement |-> ZeroEnforcement ]

----------------------------------------------------------------------------
(* The resource data d, as the handlers use it.                             *)

\* d.GetOk(k): the attribute is set and is not the zero value of its type.
GetOk(attrs, k) == attrs[k] # Zero(k)

\* d.SetId(id).
SetId(rd, id) == [rd EXCEPT !.id = id]

Range(s) == { s[i] : i \in DOMAIN s }

\* (*schema.Set).List(): the elements in the set's own (hash) order, each once.
SetList(S) ==
    IF S = {} THEN <<>>
    ELSE CHOOSE s \in [1..Cardinality(S) -> S] : Range(s) = S

\* setToStringSlice: the set's elements as a []string.
setToStringSlice(S) == SetList(S)

\* setToInterfaceSlice: the set's elements as a []interface{}.
setToInterfaceSlice(S) == SetList(S)

\* d.Set(k, v) of a slice into a TypeSet attribute: the set of its elements.
SliceToSet(s) == Range(s)

----------------------------------------------------------------------------
(* getHttpProfileConfig (lines 463-518).                                    *)

\* Variant of FallbackHostOf: the test is inverted.
FallbackHostOf_Inverted(get) ==
    IF ~GetOk(get, "fallback_host") THEN get["fallback_host"] ELSE ""

\* Lines 471-475: fallback_host, or "" when d.GetOk reports it not set.
FallbackHostOf(get) ==
    IF GetOk(get, "fallback_host") THEN get["fallback_host"] ELSE ""

\* Variant of HstsOf: mode and preload take each other's value.
HstsOf_Swapped(p, hsts) ==
    IF p = {} THEN hsts
    ELSE LET l == SetList(p)
             r == l[Len(l)]
         IN  [ IncludeSubdomains |-> r.include_subdomains,
               Mode |-> r.preload,
               Preload |-> r.mode,
               MaximumAge |-> r.maximum_age ]

\* Lines 495-502: every element of the block's set assigns the four Hsts
\* fields; the struct is left as it was when the set is empty.
HstsOf(p, hsts) ==
    IF p = {} THEN hsts
    ELSE LET l == SetList(p)
             r == l[Len(l)]
         IN  [ IncludeSubdomains |-> r.include_subdomains,
               Mode |-> r.mode,
               Preload |-> r.preload,
               MaximumAge |-> r.maximum_age ]

\* Lines 504-515: the same for enforcement.
EnforcementOf(v, enf) ==
    IF v = {} THEN enf
    ELSE LET l == SetList(v)
             r == l[Len(l)]
         IN  [ KnownMethods |-> r.known_methods,
               UnknownMethod |-> r.unknown_method,
               MaxHeaderCount |-> r.max_header_count,
               MaxHeaderSize |-> r.max_header_size ]

\* Lines 463-517: every field of config but Name is assigned.
getHttpProfileConfig(get, config) ==
    [ Name |-> config.Name,
      AppService |-> get["app_service"],
      DefaultsFrom |-> get["defaults_from"],
      AcceptXff |-> get["accept_xff"],
      BasicAuthRealm |-> get["basic_auth_realm"],
      Description |-> get["description"],
      EncryptCookieSecret |-> get["encrypt_cookie_secret"],
      EncryptCookies |-> setToStringSlice(get["encrypt_cookies"]),
      FallbackHost |-> FallbackHostOf(get),
      FallbackStatusCodes |-> setToStringSlice(get["fallback_status_codes"]),
      HeaderErase |-> get["head_erase"],
      HeaderInsert |-> get["head_insert"],
      InsertXforwardedFor |-> get["insert_xforwarded_for"],
      LwsSeparator |-> get["lws_separator"],
      OneconnectTransformations |-> get["oneconnect_transformations"],
      TmPartition |-> get["tm_partition"],
      ProxyType |-> get["proxy_type"],
      RedirectRewrite |-> get["redirect_rewrite"],
      RequestChunking |-> get["request_chunking"],
      ResponseChunking |-> get["response_chunking"],
      ResponseHeadersPermitted |-> setToInterfaceSlice(get["response_headers_permitted"]),
      ServerAgentName |-> get["server_agent_name"],
      ViaHostName |-> get["via_host_name"],
      ViaRequest |-> get["via_request"],
      ViaResponse |-> get["via_response"],
      XffAlternativeNames |-> setToInterfaceSlice(get["xff_alternative_names"]),
      LwsWidth |-> get["lws_width"],
      Hsts |-> HstsOf(get["http_strict_transport_security"], config.Hsts),
      Enforcement |-> EnforcementOf(get["enforcement"], config.Enforcement) ]

----------------------------------------------------------------------------
(* resourceBigipLtmProfileHttpRead (lines 310-427), after the fetch.        *)

\* The value d.Set stores for key k from the fetched profile pp.
FromRemote(k, pp) ==
    IF k \in SetKeys THEN SliceToSet(pp[Attr[k]]) ELSE pp[Attr[k]]

\* Variant of CopyIfSet: the d.GetOk guard is missing.
CopyIfSet_Unguarded(attrs, k, pp) == FromRemote(k, pp)

\* Lines 331-392: an attribute guarded by d.GetOk is set only when it is set
\* already.
CopyIfSet(attrs, k, pp) ==
    IF GetOk(attrs, k) THEN FromRemote(k, pp) ELSE attrs[k]

\* Lines 328, 329, 379, 393: set with no guard.
CopyAlways(attrs, k, pp) == FromRemote(k, pp)

\* Lines 395-409: the one enforcement element; known_methods enters it only
\* when an element of the block in d lists a method, and is the zero value
\* (no methods) in the stored element otherwise.
EnforcementElem(attrs, pp) ==
    [ max_header_count |-> pp.Enforcement.MaxHeaderCount,
      max_header_size |-> pp.Enforcement.MaxHeaderSize,
      unknown_method |-> pp.Enforcement.UnknownMethod,
      known_methods |->
          IF GetOk(attrs, "enforcement")
             /\ \E r \in attrs["enforcement"] : Len(r.known_methods) # 0
          THEN pp.Enforcement.KnownMethods
          ELSE <<>> ]

\* Variant of ReadEnforcement: the d.GetOk guard is missing.
ReadEnforcement_Unguarded(attrs, pp) ==
    SliceToSet(<<EnforcementElem(attrs, pp)>>)

\* Lines 411-413.
ReadEnforcement(attrs, pp) ==
    IF GetOk(attrs, "enforcement")
    THEN SliceToSet(<<EnforcementElem(attrs, pp)>>)
    ELSE attrs["enforcement"]

\* Lines 415-422: the one http_strict_transport_security element.
HstsElem(pp) ==
    [ include_subdomains |-> pp.Hsts.IncludeSubdomains,
      maximum_age |-> pp.Hsts.MaximumAge,
      mode |-> pp.Hsts.Mode,
      preload |-> pp.Hsts.Preload ]

\* Lines 423-425.
ReadHsts(attrs, pp) ==
    IF GetOk(attrs, "http_strict_transport_security")
    THEN SliceToSet(<<HstsElem(pp)>>)
    ELSE attrs["http_strict_transport_security"]

\* Lines 327-425: the attributes of d after Read of the present profile pp
\* under identity name.
ReadAttrs(attrs, name, pp) ==
    [ k \in AllKeys |->
        IF k = "name" THEN name
        ELSE IF k \in AlwaysKeys THEN CopyAlways(attrs, k, pp)
        ELSE IF k \in CondKeys THEN CopyIfSet(attrs, k, pp)
        ELSE IF k = "enforcement" THEN ReadEnforcement(attrs, pp)
        ELSE IF k = "http_strict_transport_security" THEN ReadHsts(attrs, pp)
        ELSE attrs[k] ]

\* Variant of ReadAbsent: the id is not cleared.
ReadAbsent_KeepsId(rd) == rd

\* Lines 322-326: the profile is gone; the id is cleared and nothing else.
ReadAbsent(rd) == SetId(rd, "")

\* Lines 317-426, given what client.GetHttpProfile(name) returned: the record
\* and the diagnostics Read returns.
ReadOutcome(rd, fetch) ==
    IF fetch.kind = "err"
    THEN [ d |-> rd, result |-> "error", err |-> fetch.err ]
    ELSE IF fetch.kind = "nil"
    THEN [ d |-> ReadAbsent(rd), result |-> "ok", err |-> "" ]
    ELSE [ d |-> [rd EXCEPT !.attrs = ReadAttrs(rd.attrs, rd.id, fetch.pp)],
           result |-> "ok", err |-> "" ]

----------------------------------------------------------------------------
(* The inputs: what the user declares, what the device is changed to, and   *)
(* the provider's client (meta).                                            *)

Names == { "n1", "n2" }

\* The name the configuration declares (the required attribute "name").
cfgName == "n1"

\* The errors a remote call may return; NotFoundErr is the device's answer
\* to a modify or delete of a profile it does not hold.
Errs == { "e500" }

NotFoundErr == "e404"

\* The optional attributes a behaviour declares or changes on the device:
\* members of every class of the schema.
VariedKeys ==
    { "defaults_from", "proxy_type", "fallback_host", "description",
      "encrypt_cookies", "response_headers_permitted", "xff_alternative_names",
      "lws_width", "enforcement", "http_strict_transport_security" }

EnfPlain ==
    [ known_methods |-> <<>>, max_header_count |-> 1, max_header_size |-> 0,
      unknown_method |-> "a" ]

EnfMethods ==
    [ known_methods |-> <<"GET", "PUT">>, max_header_count |-> 1,
      max_header_size |-> 0, unknown_method |-> "" ]

HstsPlain ==
    [ include_subdomains |-> "", maximum_age |-> 1, mode |-> "a", preload |-> "" ]

\* The values the user may give a declared attribute: the zero value of its
\* type, written out, among them.
ConfigVals(k) ==
    IF k \in IntKeys THEN { 0, 1 }
    ELSE IF k \in SetKeys THEN { {}, { "x", "y" } }
    ELSE IF k = "enforcement" THEN { {}, { EnfPlain }, { EnfMethods } }
    ELSE IF k = "http_strict_transport_security" THEN { {}, { HstsPlain } }
    ELSE { "", "a" }

\* The values the device may be changed to, per field of bigip.HttpProfile.
DriftVals(k) ==
    IF k \in IntKeys THEN { 0, 2 }
    ELSE IF k \in SetKeys THEN { <<>>, <<"z">> }
    ELSE IF k = "enforcement"
    THEN { ZeroEnforcement,
           [ KnownMethods |-> <<"GET">>, MaxHeaderCount |-> 2,
             MaxHeaderSize |-> 2, UnknownMethod |-> "b" ] }
    ELSE IF k = "http_strict_transport_security"
    THEN { ZeroHsts,
           [ IncludeSubdomains |-> "b", MaximumAge |-> 2, Mode |-> "b",
             Preload |-> "b" ] }
    ELSE { "", "b" }

RECURSIVE Declarations(_)
\* Every way to give each key of S one of its values.
Declarations(S) ==
    IF S = {} THEN { [ k \in {} |-> 0 ] }
    ELSE LET k == CHOOSE x \in S : TRUE
         IN  { (k :> v) @@ f : v \in ConfigVals(k), f \in Declarations(S \ {k}) }

\* The configurations: at most MaxTouched declared optional attributes.
Configs ==
    UNION { Declarations(S) :
              S \in { T \in SUBSET VariedKeys : Cardinality(T) <= MaxTouched } }

\* What d.Get yields in Create: the declared value, or the zero value.
View(name, c) ==
    [ k \in AllKeys |->
        IF k = "name" THEN name
        ELSE IF k \in DOMAIN c THEN c[k]
        ELSE Zero(k) ]

\* What d.Get yields in Update: the declared value, else the default of an
\* attribute that is not Computed, else the value in the state.
Planned(name, c, state) ==
    [ k \in AllKeys |->
        IF k = "name" THEN name
        ELSE IF k \in DOMAIN c THEN c[k]
        ELSE IF k \in NotComputedKeys THEN Zero(k)
        ELSE state[k] ]

\* client.UserAgent, character by character.
UserAgents ==
    { <<"T", "/", "1", "/", "p", "/", "v">>,
      <<"T", "/", "1">> }

\* meta.(*bigip.BigIP): the Teem flag and the user agent.
Clients == [ Teem : BOOLEAN, UserAgent : UserAgents ]

RECURSIVE Split(_, _)
\* strings.Split(s, sep) for a one-character sep: the pieces between the
\* separators, one more than there are separators.
Split(s, sep) ==
    IF \A i \in DOMAIN s : s[i] # sep THEN << s >>
    ELSE LET i == CHOOSE j \in DOMAIN s :
                      s[j] = sep /\ \A m \in 1..(j - 1) : s[m] # sep
         IN  << SubSeq(s, 1, i - 1) >> \o Split(SubSeq(s, i + 1, Len(s)), sep)

----------------------------------------------------------------------------
(* The device.                                                              *)

Absent == [ exists |-> FALSE, obj |-> ZeroProfile ]

Holds(rem, name) == rem.exists /\ rem.obj.Name = name

\* client.GetHttpProfile(name): an error, or nil for a profile the device
\* does not hold, or the profile.
FetchOf(rem, name, getErr) ==
    IF getErr # "" THEN [ kind |-> "err", err |-> getErr, pp |-> ZeroProfile ]
    ELSE IF Holds(rem, name) THEN [ kind |-> "pp", err |-> "", pp |-> rem.obj ]
    ELSE [ kind |-> "nil", err |-> "", pp |-> ZeroProfile ]

\* One remote call as the handler issued it: the verb, the name it is keyed
\* by, and the error returned ("" for none).
Call(verb, key, err) == [ verb |-> verb, key |-> key, err |-> err ]

----------------------------------------------------------------------------
(* The handlers.  Each takes the record it is entered with, the device, and *)
(* what the remote calls it issues return, and yields the record and the    *)
(* device it leaves, its diagnostics (result, err), the remote calls it     *)
(* issued, the struct it sent with its add or modify call, how its fetch    *)
(* ended and what became of the usage report.                               *)

Outcome(rd, rem, result, err, calls, sent, fetch, teem) ==
    [ d |-> rd, remote |-> rem, result |-> result, err |-> err,
      calls |-> calls, sent |-> sent, fetch |-> fetch, teem |-> teem ]

\* Lines 283-285: the add call's error ends Create.
AddFailed(err) == err # ""

\* Variant of ModifyFailed: the error is not looked at.
ModifyFailed_Ignored(err) == FALSE

\* Lines 441-444: the modify call's error ends Update.
ModifyFailed(err) == err # ""

\* Variant of DeleteFailed: not-found is not an error, as in Read.
DeleteFailed_NotFoundIgnored(err) == err # "" /\ err # NotFoundErr

\* Lines 455-458: the delete call's error ends Delete.
DeleteFailed(err) == err # ""

\* Variant of CreateSetId: the id is not set.
CreateSetId_Skipped(rd, name) == rd

\* Line 286.
CreateSetId(rd, name) == SetId(rd, name)

\* Variant of UpdateKey: the name attribute instead of the id.
UpdateKey_FromName(rd) == rd.attrs["name"]

\* Lines 431, 439: the name the modify call is keyed by.
UpdateKey(rd) == rd.id

\* Line 459.
DeleteSetId(rd) == SetId(rd, "")

\* Lines 310-427 as the tail of a handler: one fetch keyed by d.Id(), then
\* ReadOutcome; calls are the calls issued before it, sent the struct sent.
ReadTail(rd, rem, getErr, calls, sent, teem) ==
    LET fetch == FetchOf(rem, rd.id, getErr)
        ro == ReadOutcome(rd, fetch)
    IN  Outcome(ro.d, rem, ro.result, ro.err,
                Append(calls, Call("get", rd.id, fetch.err)),
                sent, fetch.kind, teem)

\* Lines 288-306: the usage report.  It is sent when client.Teem is false;
\* its version argument is tsVer[3], the fourth piece of the user agent, and
\* indexing a shorter slice panics.  A report that fails is logged.
TeemOutcome(meta, report) ==
    IF meta.Teem THEN "off"
    ELSE LET tsVer == Split(meta.UserAgent, "/")
         IN  IF Len(tsVer) < 4 THEN "panic" ELSE report

\* Lines 271-308.  gone: the profile is deleted on the device between the add
\* and the fetch.
CreateOutcome(rd, rem, meta, addErr, report, gone, getErr) ==
    LET name == rd.attrs["name"]
        pss == [ZeroProfile EXCEPT !.Name = name]
        config == getHttpProfileConfig(rd.attrs, pss)
        add == Call("add", name, addErr)
        rd1 == CreateSetId(rd, name)
        rem1 == [ exists |-> TRUE, obj |-> config ]
        teem == TeemOutcome(meta, report)
    IN  IF AddFailed(addErr)
        THEN Outcome(rd, rem, "error", addErr, <<add>>, config, "none", "none")
        ELSE IF teem = "panic"
        THEN Outcome(rd1, rem1, "panic", "", <<add>>, config, "none", teem)
        ELSE ReadTail(rd1, IF gone THEN Absent ELSE rem1, getErr, <<add>>,
                      config, teem)

\* Lines 429-447.  The device answers a modify of a profile it does not hold
\* with NotFoundErr.
UpdateOutcome(rd, rem, modErr, gone, getErr) ==
    LET name == UpdateKey(rd)
        pss == [ZeroProfile EXCEPT !.Name = name]
        config == getHttpProfileConfig(rd.attrs, pss)
        err == IF modErr # "" THEN modErr
               ELSE IF Holds(rem, name) THEN "" ELSE NotFoundErr
        modify == Call("modify", name, err)
        rem1 == [ exists |-> TRUE, obj |-> config ]
    IN  IF ModifyFailed(err)
        THEN Outcome(rd, rem, "error", err, <<modify>>, config, "none", "none")
        ELSE ReadTail(rd, IF gone THEN Absent ELSE rem1, getErr, <<modify>>,
                      config, "none")

\* Lines 449-461.  The device answers a delete of a profile it does not hold
\* with NotFoundErr.
DeleteOutcome(rd, rem, delErr) ==
    LET name == rd.id
        err == IF delErr # "" THEN delErr
               ELSE IF Holds(rem, name) THEN "" ELSE NotFoundErr
        delete == Call("delete", name, err)
    IN  IF DeleteFailed(err)
        THEN Outcome(rd, rem, "error", err, <<delete>>, ZeroProfile, "none", "none")
        ELSE Outcome(DeleteSetId(rd), Absent, "ok", "", <<delete>>, ZeroProfile,
                     "none", "none")

----------------------------------------------------------------------------
(* The state machine.                                                       *)

\* The record of a handler call: the handler and its outcome.
Ran(op, out) ==
    [ op |-> op, result |-> out.result, err |-> out.err, calls |-> out.calls,
      sent |-> out.sent, fetch |-> out.fetch, teem |-> out.teem ]

\* The record of a step that is no handler call.
NoCall(op) ==
    [ op |-> op, result |-> "none", err |-> "", calls |-> <<>>,
      sent |-> ZeroProfile, fetch |-> "none", teem |-> "none" ]

ErrOrNone == Errs \cup { "" }

\* What the calls of one Create return, in the order it issues them; a call
\* that is not issued returns nothing.
CreateRuns ==
    { s \in [ meta : Clients, addErr : ErrOrNone, report : { "sent", "failed" },
              gone : BOOLEAN, getErr : ErrOrNone ] :
        LET teem == TeemOutcome(s.meta, s.report)
        IN  /\ teem \in { "off", "panic" } => s.report = "sent"
            /\ s.addErr # "" \/ teem = "panic" => ~s.gone /\ s.getErr = ""
            /\ s.addErr # "" => s.report = "sent" }

\* The same for Update and Read.
UpdateRuns ==
    { s \in [ modErr : ErrOrNone, gone : BOOLEAN, getErr : ErrOrNone ] :
        s.modErr # "" => ~s.gone /\ s.getErr = "" }

\* The record Create is entered with: no id, and the configuration.
CreateView == [ id |-> "", attrs |-> View(cfgName, cfg) ]

\* The record Update is entered with under the configuration c.
UpdateView(c) == [ id |-> d.id, attrs |-> Planned(cfgName, c, d.attrs) ]

\* The optional attributes that are declared, or not zero on the device or in d.
Touched ==
    DOMAIN cfg
    \cup { k \in OptKeys : remote.obj[Attr[k]] # ZeroProfile[Attr[k]] }
    \cup { k \in OptKeys : d.attrs[k] # Zero(k) }

Init ==
    /\ cfg \in Configs
    /\ d = [ id |-> "", attrs |-> View(cfgName, cfg) ]
    /\ remote = Absent
    /\ last = NoCall("none")

\* The engine creates a resource that has no id.
resourceBigipLtmProfileHttpCreate ==
    /\ d.id = ""
    /\ \E s \in CreateRuns :
         LET out == CreateOutcome(CreateView, remote, s.meta, s.addErr,
                                  s.report, s.gone, s.getErr)
         IN  /\ d' = out.d
             /\ remote' = out.remote
             /\ last' = Ran("Create", out)
    /\ UNCHANGED cfg

\* The engine refreshes a resource that has an id.
resourceBigipLtmProfileHttpRead ==
    /\ d.id # ""
    /\ \E getErr \in ErrOrNone :
         LET out == ReadTail(d, remote, getErr, <<>>, ZeroProfile, "none")
         IN  /\ d' = out.d
             /\ remote' = out.remote
             /\ last' = Ran("Read", out)
    /\ UNCHANGED cfg

\* The configurations one edit away from c: the same attributes declared, at
\* most one of them with another value.
Edits(c) ==
    { c } \cup UNION { { [c EXCEPT ![k] = v] : v \in ConfigVals(k) } : k \in DOMAIN c }

\* The user edits the configuration; the engine updates the resource.
resourceBigipLtmProfileHttpUpdate ==
    /\ d.id # ""
    /\ \E c \in Edits(cfg), s \in UpdateRuns :
         LET out == UpdateOutcome(UpdateView(c), remote, s.modErr, s.gone,
                                  s.getErr)
         IN  /\ d' = out.d
             /\ remote' = out.remote
             /\ last' = Ran("Update", out)
             /\ cfg' = c

\* The engine destroys a resource that has an id.
resourceBigipLtmProfileHttpDelete ==
    /\ d.id # ""
    /\ \E delErr \in ErrOrNone :
         LET out == DeleteOutcome(d, remote, delErr)
         IN  /\ d' = out.d
             /\ remote' = out.remote
             /\ last' = Ran("Delete", out)
    /\ UNCHANGED cfg

\* Lines 27-29, schema.ImportStatePassthroughContext: a record with the given
\* id and nothing else; the engine then calls Read.
ImportState ==
    /\ d.id = ""
    /\ \E name \in Names :
         d' = [ id |-> name, attrs |-> View("", [ k \in {} |-> 0 ]) ]
    /\ last' = NoCall("Import")
    /\ UNCHANGED <<cfg, remote>>

\* The profile is changed on the device, behind the provider's back.
Drift ==
    /\ remote.exists
    /\ \E k \in { x \in VariedKeys : Cardinality(Touched \cup {x}) <= MaxTouched } :
       \E v \in DriftVals(k) :
         /\ remote.obj[Attr[k]] # v
         /\ remote' = [remote EXCEPT !.obj[Attr[k]] = v]
    /\ last' = NoCall("Drift")
    /\ UNCHANGED <<cfg, d>>

\* The profile is deleted on the device, behind the provider's back.
RemoteDelete ==
    /\ remote.exists
    /\ remote' = Absent
    /\ last' = NoCall("RemoteDelete")
    /\ UNCHANGED <<cfg, d>>

Next ==
    \/ resourceBigipLtmProfileHttpCreate
    \/ resourceBigipLtmProfileHttpRead
    \/ resourceBigipLtmProfileHttpUpdate
    \/ resourceBigipLtmProfileHttpDelete
    \/ ImportState
    \/ Drift
    \/ RemoteDelete

Spec == Init /\ [][Next]_vars

----------------------------------------------------------------------------
(* Properties.                                                              *)

\* The first remote call of the handler that ran last succeeded.
FirstCallOk == Len(last.calls) >= 1 /\ last.calls[1].err = ""

\* The last step was Read (not the tail of Create or Update) and its fetch
\* ended as kind.
ReadStep(kind) == last'.op = "Read" /\ last'.fetch = kind

\* C1: a Read whose fetch reports absence (nil, no error) clears the id,
\* returns no error, and writes no attribute, whatever the record held.
C1_ReadAbsentClearsId ==
    [][ ReadStep("nil") =>
          /\ d'.id = ""
          /\ last'.result = "ok" /\ last'.err = ""
          /\ d'.attrs = d.attrs ]_vars

C1_Witness ==
    /\ last.op = "Read" /\ last.fetch = "nil" /\ last.result = "ok"
    /\ d.id = ""
    /\ \E k \in OptKeys : d.attrs[k] # Zero(k)

\* C2 as stated: whenever Create returns an error of a remote call (the add
\* or the fetch after it) the id is still unset.
C2_NoPartialState ==
    last.op = "Create" /\ last.result = "error" => d.id = ""

\* C2 amended: Create returns the add's error with the id unset; once the add
\* succeeded the id is the configured name, also when the fetch that follows
\* fails and Create returns its error; only a fetch that reports absence
\* clears it again, and Create then returns no error.
C2_CreateIdentity ==
    last.op = "Create" =>
      /\ ~FirstCallOk => last.result = "error" /\ d.id = ""
      /\ FirstCallOk /\ last.fetch = "err" =>
           last.result = "error" /\ d.id = cfgName
      /\ FirstCallOk /\ last.fetch = "pp" => last.result = "ok" /\ d.id = cfgName
      /\ FirstCallOk /\ last.fetch = "none" => d.id = cfgName
      /\ FirstCallOk /\ last.fetch = "nil" => last.result = "ok" /\ d.id = ""

C2_Witness ==
    /\ last.op = "Create" /\ last.result = "error"
    /\ FirstCallOk /\ last.fetch = "err"
    /\ d.id = cfgName

\* Every declared attribute holds the declared value, the name the declared
\* name, and fallback_host is empty when it is not declared.
RoundTrip(attrs) ==
    /\ attrs["name"] = cfgName
    /\ \A k \in DOMAIN cfg : attrs[k] = cfg[k]
    /\ "fallback_host" \notin DOMAIN cfg => attrs["fallback_host"] = ""

CreatedAndRead(l) == l.op = "Create" /\ l.result = "ok" /\ l.fetch = "pp"

\* C3: against the device, which stores what it is sent, Create and the Read
\* it ends with, and a Read that follows it with the device unchanged, leave
\* every attribute the user declared (lws_width, and the ones declared with
\* the zero value, among them) at the declared value; fallback_host is empty
\* when it is not declared.
C3_RoundTrip ==
    /\ [](CreatedAndRead(last) => RoundTrip(d.attrs))
    /\ [][ CreatedAndRead(last) /\ ReadStep("pp") => RoundTrip(d'.attrs) ]_vars

C3_Witness ==
    /\ CreatedAndRead(last)
    /\ \E k \in DOMAIN cfg : cfg[k] # Zero(k) /\ d.attrs[k] = cfg[k]

\* An optional attribute that is not set in the record is left as it is.
UnsetKept(k) == ~GetOk(d.attrs, k) => d'.attrs[k] = d.attrs[k]

\* C4 as stated: Read of a present profile leaves every optional attribute
\* that is not set in the record as it is, but for two that are always
\* copied, response_headers_permitted and xff_alternative_names.
C4_TwoAlwaysCopied ==
    [][ ReadStep("pp") =>
          \A k \in OptKeys \ { "response_headers_permitted", "xff_alternative_names" } :
             UnsetKept(k) ]_vars

\* C4 amended: four attributes are always copied: defaults_from, proxy_type,
\* response_headers_permitted and xff_alternative_names take the device's
\* value whether they were set or not; every other optional attribute that
\* is not set in the record is left as it is.
C4_FourAlwaysCopied ==
    [][ ReadStep("pp") =>
          /\ \A k \in OptKeys \ { "defaults_from", "proxy_type",
                                  "response_headers_permitted",
                                  "xff_alternative_names" } : UnsetKept(k)
          /\ d'.attrs["defaults_from"] = remote.obj.DefaultsFrom
          /\ d'.attrs["proxy_type"] = remote.obj.ProxyType
          /\ d'.attrs["response_headers_permitted"]
               = Range(remote.obj.ResponseHeadersPermitted)
          /\ d'.attrs["xff_alternative_names"]
               = Range(remote.obj.XffAlternativeNames) ]_vars

C4_Witness ==
    /\ last.op = "Read" /\ last.fetch = "pp"
    /\ "proxy_type" \notin DOMAIN cfg
    /\ d.attrs["proxy_type"] = "b" /\ remote.obj.ProxyType = "b"

\* C5 as stated: whatever the device answers, the id Update returns with is
\* the id it was invoked with, and the modify call is keyed by it.
C5_IdentityNeverAltered ==
    [][ last'.op = "Update" =>
          /\ d'.id = d.id
          /\ last'.calls[1].verb = "modify" /\ last'.calls[1].key = d.id ]_vars

\* C5 amended: the modify call is keyed by the id Update was invoked with,
\* whatever name the configuration holds, and Update never sets another id;
\* it returns with the id it was invoked with unless the fetch after the
\* modify reports absence, and then the id is cleared.
C5_IdentityKeptOrCleared ==
    [][ last'.op = "Update" =>
          /\ last'.calls[1].verb = "modify" /\ last'.calls[1].key = d.id
          /\ last'.sent.Name = d.id
          /\ last'.fetch # "nil" => d'.id = d.id
          /\ last'.fetch = "nil" => d'.id = "" ]_vars

C5_Witness ==
    /\ last.op = "Update"
    /\ d.id # "" /\ d.id # cfgName /\ d.attrs["name"] = cfgName
    /\ last.calls[1].key = d.id

\* C6: Delete issues one delete call keyed by the id; when it succeeds the id
\* is cleared; when it fails, as it does for a profile the device does not
\* hold, Delete returns that error and leaves the record as it was.
C6_Delete ==
    [][ last'.op = "Delete" =>
          /\ Len(last'.calls) = 1
          /\ last'.calls[1].verb = "delete" /\ last'.calls[1].key = d.id
          /\ last'.calls[1].err = "" => last'.result = "ok" /\ d'.id = ""
          /\ last'.calls[1].err # "" =>
               /\ last'.result = "error" /\ last'.err = last'.calls[1].err
               /\ d' = d
          /\ ~Holds(remote, d.id) => last'.result = "error" ]_vars

C6_Witness ==
    /\ last.op = "Delete" /\ last.result = "error" /\ last.err = NotFoundErr
    /\ d.id # "" /\ ~Holds(remote, d.id)

\* fallback_host as the configuration declares it: empty when not declared.
DeclaredFallbackHost ==
    IF "fallback_host" \in DOMAIN cfg THEN cfg["fallback_host"] ELSE ""

\* C7: the struct Create and Update send holds the configured fallback_host,
\* and the empty string when the configuration has none; after a Create
\* without fallback_host the profile on the device has an empty FallbackHost
\* and the Read that ends Create leaves fallback_host empty in the record.
C7_FallbackHost ==
    /\ last.op \in { "Create", "Update" } =>
         last.sent.FallbackHost = DeclaredFallbackHost
    /\ CreatedAndRead(last) /\ "fallback_host" \notin DOMAIN cfg =>
         remote.obj.FallbackHost = "" /\ d.attrs["fallback_host"] = ""

C7_Witness ==
    /\ CreatedAndRead(last) /\ "fallback_host" \notin DOMAIN cfg
    /\ remote.exists /\ remote.obj.FallbackHost = ""
    /\ d.attrs["fallback_host"] = ""

\* The single enforcement element Read builds from the fetched profile pp for
\* a record with the attributes attrs.
OneEnforcement(attrs, pp) ==
    { [ max_header_count |-> pp.Enforcement.MaxHeaderCount,
        max_header_size |-> pp.Enforcement.MaxHeaderSize,
        unknown_method |-> pp.Enforcement.UnknownMethod,
        known_methods |->
            IF \E r \in attrs["enforcement"] : r.known_methods # <<>>
            THEN pp.Enforcement.KnownMethods ELSE <<>> ] }

OneHsts(pp) ==
    { [ include_subdomains |-> pp.Hsts.IncludeSubdomains,
        maximum_age |-> pp.Hsts.MaximumAge,
        mode |-> pp.Hsts.Mode,
        preload |-> pp.Hsts.Preload ] }

\* C8: Read of a present profile stores, for each of the two blocks, a set of
\* exactly one element holding the device's values when the block is present
\* in the record, and leaves the block as it is when it is not.  (The
\* element's known_methods are the device's when the block in the record
\* lists a method, and empty otherwise.)
C8_NestedBlocks ==
    [][ ReadStep("pp") =>
          /\ d'.attrs["enforcement"] =
               IF d.attrs["enforcement"] # {}
               THEN OneEnforcement(d.attrs, remote.obj)
               ELSE d.attrs["enforcement"]
          /\ d'.attrs["http_strict_transport_security"] =
               IF d.attrs["http_strict_transport_security"] # {}
               THEN OneHsts(remote.obj)
               ELSE d.attrs["http_strict_transport_security"] ]_vars

C8_Witness ==
    /\ last.op = "Read" /\ last.fetch = "pp"
    /\ Cardinality(d.attrs["enforcement"]) = 1
    /\ \E r \in d.attrs["enforcement"] :
         r.unknown_method = "b" /\ remote.obj.Enforcement.UnknownMethod = "b"

\* C9 as stated: once the add call succeeded, Create goes on to the fetch and
\* returns what the fetch decides, whatever became of the usage report.
C9_TelemetryNeverFatal ==
    last.op = "Create" /\ FirstCallOk =>
      /\ last.result \in { "ok", "error" }
      /\ last.fetch = "err" <=> last.result = "error"
      /\ last.fetch \in { "nil", "pp" } <=> last.result = "ok"

MutatingVerbs == { "add", "modify", "delete" }

VerbOf == [ Create |-> "add", Update |-> "modify", Delete |-> "delete" ]

\* C10: a handler issues at most one mutating call, of its own verb, and Read
\* none; a remote call that returns an error is the handler's last call, and
\* the handler returns that error.
C10_NoRetryNoRollback ==
    last.op \in { "Create", "Read", "Update", "Delete" } =>
      /\ Cardinality({ i \in DOMAIN last.calls :
                         last.calls[i].verb \in MutatingVerbs }) <= 1
      /\ \A i \in DOMAIN last.calls :
           /\ last.calls[i].verb \in MutatingVerbs =>
                last.op # "Read" /\ last.calls[i].verb = VerbOf[last.op]
           /\ last.calls[i].err # "" =>
                /\ i = Len(last.calls)
                /\ last.result = "error"
                /\ last.err = last.calls[i].err
      /\ last.result = "error" =>
           last.calls[Len(last.calls)].err = last.err

C10_Witness ==
    /\ last.op = "Update" /\ last.result = "error"
    /\ Len(last.calls) = 1 /\ last.calls[1].verb = "modify"
    /\ last.calls[1].err = "e500" /\ last.err = "e500"

\* The optional attributes that hold one string or one number.
ScalarKeys == OptKeys \ (SetKeys \cup BlockKeys)

\* C11 as stated: after every Read that returns a present profile, each
\* optional scalar attribute the user declared with a value holds the value
\* the device holds now, whatever changes of the device and Reads came before.
C11_DriftDetected ==
    [][ ReadStep("pp") =>
          \A k \in DOMAIN cfg \cap ScalarKeys :
            cfg[k] # Zero(k) => d'.attrs[k] = remote'.obj[Attr[k]] ]_vars

\* A Read has just left description empty in the record although the user
\* declared it with a value and the device holds a value for it.
C11_StaleAfterEmpty ==
    /\ last.op = "Read" /\ last.fetch = "pp" /\ last.result = "ok"
    /\ "description" \in DOMAIN cfg /\ cfg["description"] = "a"
    /\ remote.obj.Description = "b"
    /\ d.attrs["description"] = ""

\* A Read has just left lws_width as declared although the device holds
\* another value.
C11_StaleLwsWidth ==
    /\ last.op = "Read" /\ last.fetch = "pp" /\ last.result = "ok"
    /\ "lws_width" \in DOMAIN cfg /\ cfg["lws_width"] = 1
    /\ remote.obj.LwsWidth = 2
    /\ d.attrs["lws_width"] = 1

====
